---- MODULE Spec2Model ----
(***************************************************************************)
(* geo-rand: random polygons and sets of non-intersecting polygons.        *)
(* Model of src/src/lib.rs: points_to_contour / left_turn_test (pure),     *)
(* Point::rand, Polygon::rand (one step per statement that draws from the  *)
(* random-number source) and the MultiPolygon::rand loop.                  *)
(* Coordinates are integers (the code is generic over T; Polygon::rand and *)
(* Point::rand accept integer T).  A point is a pair <<x, y>>.             *)
(***************************************************************************)
EXTENDS Integers, Sequences, FiniteSets, TLC

VARIABLES
    pc,               \* position of the running call
    parameters,       \* GeoRandParameters
    draws,            \* the draws taken from rng so far, by the variable drawn
    bound_x1, bound_y1, bound_x2, bound_y2,
    translate_x, translate_y, vertices_count,
    points,           \* the points collected / the input of points_to_contour
    contour,          \* result of points_to_contour (None or a sequence)
    polygon,          \* result of Polygon::rand (exterior ring)
    polygons,         \* MultiPolygon::rand: accepted polygons
    collisions_count, \* MultiPolygon::rand: collision counter
    candidates,       \* candidates Polygon::rand returned to MultiPolygon::rand
    checks            \* calls of intersects made by MultiPolygon::rand so far

vars == <<pc, parameters, draws, bound_x1, bound_y1, bound_x2, bound_y2,
          translate_x, translate_y, vertices_count, points, contour, polygon,
          polygons, collisions_count, candidates, checks>>

\* ------------------------------------------------------------------ bounds
GridMax == 2
MaxLen == 3
MaxCoord == 3
MaxVertices == 4
MaxPolygons == 2
MaxBudget == 2

\* Option<T>: None is the empty sequence, Some(v) the one-element sequence
None == <<>>
Some(v) == <<v>>
unwrap(o) == o[1]

X(p) == p[1]
Y(p) == p[2]
Sub(p, q) == <<X(p) - X(q), Y(p) - Y(q)>>

\* ------------------------------------------------------ points_to_contour
left_turn_test_strict(point, other_point) ==
    ((X(point) * Y(other_point)) - (Y(point) * X(other_point))) > 0

left_turn_test(point, other_point) ==
    ((X(point) * Y(other_point)) - (Y(point) * X(other_point))) >= 0

\* the fold of lines 143-159 over pts[i..], acc = <<left_most, right_most>>
RECURSIVE FoldExtremes(_, _, _)
FoldExtremes(pts, i, acc) ==
    IF i > Len(pts) THEN acc
    ELSE LET point == pts[i]
             left_most == acc[1]
             right_most == acc[2]
         IN FoldExtremes(pts, i + 1,
                <<IF X(point) < X(left_most) THEN point ELSE left_most,
                  IF X(point) >= X(right_most) THEN point ELSE right_most>>)

\* slice::sort_by is a stable sort: insert each element behind every element
\* that does not compare Greater than it.  key is +1 for ascending x
\* (line 166) and -1 for descending x (line 167).
RECURSIVE InsertSorted(_, _, _)
InsertSorted(sorted, p, key) ==
    IF sorted = <<>> THEN <<p>>
    ELSE IF key * (X(Head(sorted)) - X(p)) > 0
         THEN <<p>> \o sorted
         ELSE <<Head(sorted)>> \o InsertSorted(Tail(sorted), p, key)

RECURSIVE SortByX(_, _)
SortByX(list, key) ==
    IF list = <<>> THEN <<>>
    ELSE InsertSorted(SortByX(SubSeq(list, 1, Len(list) - 1), key),
                      list[Len(list)], key)

points_to_contour_open(pts) ==
    IF Len(pts) = 0 THEN None
    ELSE LET first_point == pts[1]
             ext == FoldExtremes(pts, 2, <<first_point, first_point>>)
             left_most == ext[1]
             right_most == ext[2]
             rest == SelectSeq(pts, LAMBDA p : p # left_most /\ p # right_most)
             above_list == SelectSeq(rest, LAMBDA p :
                               left_turn_test(Sub(right_most, left_most), Sub(p, left_most)))
             below_list == SelectSeq(rest, LAMBDA p :
                               ~left_turn_test(Sub(right_most, left_most), Sub(p, left_most)))
         IN Some(<<left_most>> \o SortByX(above_list, 1) \o <<right_most>>
                \o SortByX(below_list, -1))

points_to_contour(pts) ==
    IF Len(pts) = 0 THEN None
    ELSE LET first_point == pts[1]
             ext == FoldExtremes(pts, 2, <<first_point, first_point>>)
             left_most == ext[1]
             right_most == ext[2]
             rest == SelectSeq(pts, LAMBDA p : p # left_most /\ p # right_most)
             above_list == SelectSeq(rest, LAMBDA p :
                               left_turn_test(Sub(right_most, left_most), Sub(p, left_most)))
             below_list == SelectSeq(rest, LAMBDA p :
                               ~left_turn_test(Sub(right_most, left_most), Sub(p, left_most)))
         IN Some(<<left_most>> \o SortByX(above_list, 1) \o <<right_most>>
                \o SortByX(below_list, -1) \o <<left_most>>)

\* --------------------------------------------- specification SpecContour
\* points_to_contour applied to every point list over a small grid, and to
\* the list (0,0),(2,3),(4,0),(2,-3).
Grid == (0..GridMax) \X (0..GridMax)
ExamplePoints == << <<0, 0>>, <<2, 3>>, <<4, 0>>, <<2, -3>> >>
ContourInputs == UNION {[1..n -> Grid] : n \in 0..MaxLen} \cup {ExamplePoints}

NoParameters ==
    [max_polygons_count |-> 0, max_polygon_vertices_count |-> 0,
     max_collisions_count |-> None, min_x |-> 0, min_y |-> 0, max_x |-> 0, max_y |-> 0]

IdleLocals ==
    /\ draws = <<>>
    /\ bound_x1 = 0 /\ bound_y1 = 0 /\ bound_x2 = 0 /\ bound_y2 = 0
    /\ translate_x = 0 /\ translate_y = 0 /\ vertices_count = 0
    /\ polygon = <<>>
    /\ polygons = <<>> /\ collisions_count = 0 /\ candidates = 0 /\ checks = 0

InitContour ==
    /\ pc = "contour_call"
    /\ parameters = NoParameters
    /\ points \in ContourInputs
    /\ contour = None
    /\ IdleLocals

ContourCall ==
    /\ pc = "contour_call"
    /\ contour' = points_to_contour(points)
    /\ pc' = "contour_done"
    /\ UNCHANGED <<parameters, draws, bound_x1, bound_y1, bound_x2, bound_y2,
                   translate_x, translate_y, vertices_count, points, polygon,
                   polygons, collisions_count, candidates, checks>>

NextContour == ContourCall

SpecContour == InitContour /\ [][NextContour]_vars

\* ------------------------------------------------ Polygon::rand, Point::rand
\* Rng::gen_range(low, high) draws from the half-open range [low, high) and
\* panics when low >= high.
GenRange(low, high) == low..(high - 1)

\* lines 97-107: the two draws of an axis ordered into (min, max)
OrderedMin(b1, b2) == IF b1 < b2 THEN b1 ELSE b2
OrderedMax(b1, b2) == IF b1 < b2 THEN b2 ELSE b1

box_min_x == OrderedMin(bound_x1, bound_x2)
box_max_x == OrderedMax(bound_x1, bound_x2)
box_min_y == OrderedMin(bound_y1, bound_y2)
box_max_y == OrderedMax(bound_y1, bound_y2)

\* lines 109-110: the range of the translation draw of one axis
TranslateLowWide(p_min, p_max, b_min, b_max) == p_min - b_max
TranslateLow(p_min, p_max, b_min, b_max) == p_min - b_min
TranslateHigh(p_min, p_max, b_min, b_max) == p_max - b_max

VerticesRangeInclusive(p) == <<3, p.max_polygon_vertices_count + 1>>

\* line 111: the range [low, high) of the vertex-count draw
VerticesRange(p) == <<3, p.max_polygon_vertices_count>>

\* Translate::translate on the exterior ring
Translate(ring, dx, dy) == [i \in 1..Len(ring) |-> <<X(ring[i]) + dx, Y(ring[i]) + dy>>]

\* the range [low, high) of the draw the call is about to take
DrawRange ==
    CASE pc \in {"bound_x1", "bound_x2"} -> <<parameters.min_x, parameters.max_x>>
      [] pc \in {"bound_y1", "bound_y2"} -> <<parameters.min_y, parameters.max_y>>
      [] pc = "translate_x" ->
            <<TranslateLow(parameters.min_x, parameters.max_x, box_min_x, box_max_x),
              TranslateHigh(parameters.min_x, parameters.max_x, box_min_x, box_max_x)>>
      [] pc = "translate_y" ->
            <<TranslateLow(parameters.min_y, parameters.max_y, box_min_y, box_max_y),
              TranslateHigh(parameters.min_y, parameters.max_y, box_min_y, box_max_y)>>
      [] pc = "vertices_count" -> VerticesRange(parameters)
      [] pc = "point_x" -> <<box_min_x, box_max_x>>
      [] pc = "point_y" -> <<box_min_y, box_max_y>>
      [] OTHER -> <<0, 1>>

DrawSites == {"bound_x1", "bound_y1", "bound_x2", "bound_y2", "translate_x",
              "translate_y", "vertices_count", "point_x", "point_y"}

CanDraw(site) == pc = site /\ DrawRange[1] < DrawRange[2]

AxisRegions == {<<lo, hi>> \in (0..1) \X (0..MaxCoord) : lo <= hi}

PolygonParameters ==
    {[max_polygons_count |-> 1, max_polygon_vertices_count |-> n,
      max_collisions_count |-> None,
      min_x |-> rx[1], max_x |-> rx[2], min_y |-> ry[1], max_y |-> ry[2]] :
        n \in 3..MaxVertices, rx \in AxisRegions, ry \in AxisRegions}

Init ==
    /\ pc = "bound_x1"
    /\ parameters \in PolygonParameters
    /\ points = <<>>
    /\ contour = None
    /\ IdleLocals

\* line 92
DrawBoundX1 ==
    /\ CanDraw("bound_x1")
    /\ bound_x1' \in GenRange(DrawRange[1], DrawRange[2])
    /\ draws' = Append(draws, "bound_x1")
    /\ pc' = "bound_y1"
    /\ UNCHANGED <<parameters, bound_y1, bound_x2, bound_y2, translate_x,
                   translate_y, vertices_count, points, contour, polygon,
                   polygons, collisions_count, candidates, checks>>

\* line 93
DrawBoundY1 ==
    /\ CanDraw("bound_y1")
    /\ bound_y1' \in GenRange(DrawRange[1], DrawRange[2])
    /\ draws' = Append(draws, "bound_y1")
    /\ pc' = "bound_x2"
    /\ UNCHANGED <<parameters, bound_x1, bound_x2, bound_y2, translate_x,
                   translate_y, vertices_count, points, contour, polygon,
                   polygons, collisions_count, candidates, checks>>

\* line 94
DrawBoundX2 ==
    /\ CanDraw("bound_x2")
    /\ bound_x2' \in GenRange(DrawRange[1], DrawRange[2])
    /\ draws' = Append(draws, "bound_x2")
    /\ pc' = "bound_y2"
    /\ UNCHANGED <<parameters, bound_x1, bound_y1, bound_y2, translate_x,
                   translate_y, vertices_count, points, contour, polygon,
                   polygons, collisions_count, candidates, checks>>

\* line 95 followed at once by line 111
DrawBoundY2Early ==
    /\ CanDraw("bound_y2")
    /\ bound_y2' \in GenRange(DrawRange[1], DrawRange[2])
    /\ draws' = Append(draws, "bound_y2")
    /\ pc' = "vertices_count"
    /\ UNCHANGED <<parameters, bound_x1, bound_y1, bound_x2, translate_x,
                   translate_y, vertices_count, points, contour, polygon,
                   polygons, collisions_count, candidates, checks>>

\* line 95
DrawBoundY2 ==
    /\ CanDraw("bound_y2")
    /\ bound_y2' \in GenRange(DrawRange[1], DrawRange[2])
    /\ draws' = Append(draws, "bound_y2")
    /\ pc' = "translate_x"
    /\ UNCHANGED <<parameters, bound_x1, bound_y1, bound_x2, translate_x,
                   translate_y, vertices_count, points, contour, polygon,
                   polygons, collisions_count, candidates, checks>>

\* line 109
DrawTranslateX ==
    /\ CanDraw("translate_x")
    /\ translate_x' \in GenRange(DrawRange[1], DrawRange[2])
    /\ draws' = Append(draws, "translate_x")
    /\ pc' = "translate_y"
    /\ UNCHANGED <<parameters, bound_x1, bound_y1, bound_x2, bound_y2,
                   translate_y, vertices_count, points, contour, polygon,
                   polygons, collisions_count, candidates, checks>>

\* line 110
DrawTranslateY ==
    /\ CanDraw("translate_y")
    /\ translate_y' \in GenRange(DrawRange[1], DrawRange[2])
    /\ draws' = Append(draws, "translate_y")
    /\ pc' = "vertices_count"
    /\ UNCHANGED <<parameters, bound_x1, bound_y1, bound_x2, bound_y2,
                   translate_x, vertices_count, points, contour, polygon,
                   polygons, collisions_count, candidates, checks>>

\* line 111; the map of lines 121-123 then runs vertices_count (>= 3) times
DrawVerticesCount ==
    /\ CanDraw("vertices_count")
    /\ vertices_count' \in GenRange(DrawRange[1], DrawRange[2])
    /\ draws' = Append(draws, "vertices_count")
    /\ pc' = "point_x"
    /\ UNCHANGED <<parameters, bound_x1, bound_y1, bound_x2, bound_y2,
                   translate_x, translate_y, points, contour, polygon,
                   polygons, collisions_count, candidates, checks>>

\* line 133: the x draw of Point::rand; the point under construction is kept
\* as a one-element tail <<x>> of points until its y is drawn
DrawPointX ==
    /\ CanDraw("point_x")
    /\ \E x \in GenRange(DrawRange[1], DrawRange[2]) : points' = Append(points, <<x>>)
    /\ draws' = Append(draws, "point_x")
    /\ pc' = "point_y"
    /\ UNCHANGED <<parameters, bound_x1, bound_y1, bound_x2, bound_y2,
                   translate_x, translate_y, vertices_count, contour, polygon,
                   polygons, collisions_count, candidates, checks>>

\* line 134: the y draw of Point::rand, and the next round of the map
DrawPointY ==
    /\ CanDraw("point_y")
    /\ \E y \in GenRange(DrawRange[1], DrawRange[2]) :
          points' = [points EXCEPT ![Len(points)] = <<points[Len(points)][1], y>>]
    /\ draws' = Append(draws, "point_y")
    /\ pc' = IF Len(points) = vertices_count THEN "build" ELSE "point_x"
    /\ UNCHANGED <<parameters, bound_x1, bound_y1, bound_x2, bound_y2,
                   translate_x, translate_y, vertices_count, contour, polygon,
                   polygons, collisions_count, candidates, checks>>

\* gen_range called with low >= high: the call panics
GenRangePanic ==
    /\ pc \in DrawSites
    /\ DrawRange[1] >= DrawRange[2]
    /\ pc' = "panic"
    /\ UNCHANGED <<parameters, draws, bound_x1, bound_y1, bound_x2, bound_y2,
                   translate_x, translate_y, vertices_count, points, contour,
                   polygon, polygons, collisions_count, candidates, checks>>

\* lines 125-126
BuildPolygon ==
    /\ pc = "build"
    /\ contour' = points_to_contour(points)
    /\ IF contour' = None
       THEN pc' = "panic" /\ UNCHANGED polygon
       ELSE /\ polygon' = Translate(unwrap(contour'), translate_x, translate_y)
            /\ pc' = "returned"
    /\ UNCHANGED <<parameters, draws, bound_x1, bound_y1, bound_x2, bound_y2,
                   translate_x, translate_y, vertices_count, points,
                   polygons, collisions_count, candidates, checks>>

Next ==
    \/ DrawBoundX1 \/ DrawBoundY1 \/ DrawBoundX2 \/ DrawBoundY2
    \/ DrawTranslateX \/ DrawTranslateY \/ DrawVerticesCount
    \/ DrawPointX \/ DrawPointY \/ GenRangePanic \/ BuildPolygon

Spec == Init /\ [][Next]_vars

\* ------------------------------------------------------ MultiPolygon::rand
\* Intersects::intersects of two polygons without holes (geo): their rings
\* share a point, or one polygon lies inside the other.
Cross(o, a, b) == (X(a) - X(o)) * (Y(b) - Y(o)) - (Y(a) - Y(o)) * (X(b) - X(o))
Sign(v) == IF v > 0 THEN 1 ELSE IF v < 0 THEN -1 ELSE 0
Between(u, v, w) == (u <= w /\ w <= v) \/ (v <= w /\ w <= u)
\* p, known to be on the line through a and b, is on the segment a-b
OnSegment(a, b, p) == Between(X(a), X(b), X(p)) /\ Between(Y(a), Y(b), Y(p))

SegmentsIntersect(a, b, c, d) ==
    LET d1 == Sign(Cross(c, d, a))
        d2 == Sign(Cross(c, d, b))
        d3 == Sign(Cross(a, b, c))
        d4 == Sign(Cross(a, b, d))
    IN \/ (d1 * d2 < 0 /\ d3 * d4 < 0)
       \/ (d1 = 0 /\ OnSegment(c, d, a))
       \/ (d2 = 0 /\ OnSegment(c, d, b))
       \/ (d3 = 0 /\ OnSegment(a, b, c))
       \/ (d4 = 0 /\ OnSegment(a, b, d))

\* p is strictly inside the ring: a ray from p towards +x crosses an odd
\* number of edges
Inside(p, ring) ==
    LET crossing(i) ==
            LET a == ring[i]
                b == ring[i + 1]
                dy == Y(b) - Y(a)
                side == (X(a) - X(p)) * dy + (Y(p) - Y(a)) * (X(b) - X(a))
            IN /\ (Y(a) > Y(p)) # (Y(b) > Y(p))
               /\ Sign(side) = Sign(dy)
    IN Cardinality({i \in 1..(Len(ring) - 1) : crossing(i)}) % 2 = 1

Intersects(ring, other) ==
    \/ \E i \in 1..(Len(ring) - 1), j \in 1..(Len(other) - 1) :
          SegmentsIntersect(ring[i], ring[i + 1], other[j], other[j + 1])
    \/ Inside(ring[1], other)
    \/ Inside(other[1], ring)

\* Polygon::rand as a function of its draws (lines 92-126)
PolygonOf(pts, tx, ty) == Translate(unwrap(points_to_contour(pts)), tx, ty)

\* every polygon Polygon::rand(rng, p) can return
PolygonRandResults(p) ==
    UNION {
      LET min_x == OrderedMin(bx[1], bx[2])
          max_x == OrderedMax(bx[1], bx[2])
          min_y == OrderedMin(by[1], by[2])
          max_y == OrderedMax(by[1], by[2])
      IN UNION {
           {PolygonOf(pts, t[1], t[2]) :
              pts \in [1..n -> GenRange(min_x, max_x) \X GenRange(min_y, max_y)]} :
           n \in GenRange(VerticesRange(p)[1], VerticesRange(p)[2]),
           t \in GenRange(TranslateLow(p.min_x, p.max_x, min_x, max_x),
                          TranslateHigh(p.min_x, p.max_x, min_x, max_x))
                 \X GenRange(TranslateLow(p.min_y, p.max_y, min_y, max_y),
                             TranslateHigh(p.min_y, p.max_y, min_y, max_y))} :
      bx \in GenRange(p.min_x, p.max_x) \X GenRange(p.min_x, p.max_x),
      by \in GenRange(p.min_y, p.max_y) \X GenRange(p.min_y, p.max_y)}

\* some sequence of draws makes Polygon::rand(rng, p) panic in gen_range
PolygonRandCanPanic(p) ==
    \/ p.min_x >= p.max_x
    \/ p.min_y >= p.max_y
    \/ VerticesRange(p)[1] >= VerticesRange(p)[2]
    \/ \E bx \in GenRange(p.min_x, p.max_x) \X GenRange(p.min_x, p.max_x) :
          OrderedMin(bx[1], bx[2]) >= OrderedMax(bx[1], bx[2])
    \/ \E by \in GenRange(p.min_y, p.max_y) \X GenRange(p.min_y, p.max_y) :
          OrderedMin(by[1], by[2]) >= OrderedMax(by[1], by[2])

\* the region and the vertex bound MultiPolygon::rand is run with
MultiShape ==
    [max_polygon_vertices_count |-> 4, min_x |-> 0, max_x |-> 3, min_y |-> 0, max_y |-> 3]

\* every polygon Polygon::rand can return under MultiShape
MultiCandidates == PolygonRandResults(MultiShape)

MultiParameters ==
    {[max_polygons_count |-> n,
      max_polygon_vertices_count |-> MultiShape.max_polygon_vertices_count,
      max_collisions_count |-> c,
      min_x |-> MultiShape.min_x, max_x |-> MultiShape.max_x,
      min_y |-> MultiShape.min_y, max_y |-> MultiShape.max_y] :
        n \in 0..MaxPolygons, c \in {None} \cup {Some(b) : b \in 0..MaxBudget}}

InitMulti ==
    /\ pc = "loop"
    /\ parameters \in MultiParameters
    /\ draws = <<>>
    /\ bound_x1 = 0 /\ bound_y1 = 0 /\ bound_x2 = 0 /\ bound_y2 = 0
    /\ translate_x = 0 /\ translate_y = 0 /\ vertices_count = 0
    /\ points = <<>> /\ contour = None /\ polygon = <<>>
    /\ polygons = <<>>          \* line 63
    /\ collisions_count = 0     \* line 64
    /\ candidates = 0 /\ checks = 0

PolygonLocals == <<draws, bound_x1, bound_y1, bound_x2, bound_y2, translate_x,
                   translate_y, vertices_count, points, contour>>

LoopConditionInclusive ==
    /\ IF parameters.max_collisions_count # None
       THEN collisions_count <= unwrap(parameters.max_collisions_count)
       ELSE TRUE
    /\ Len(polygons) < parameters.max_polygons_count

\* the condition of the while loop, lines 66-70
LoopCondition ==
    /\ IF parameters.max_collisions_count # None
       THEN collisions_count < unwrap(parameters.max_collisions_count)
       ELSE TRUE
    /\ Len(polygons) < parameters.max_polygons_count

FirstCollisionSkipLast(new_polygon) ==
    IF \E i \in 1..(Len(polygons) - 1) : Intersects(new_polygon, polygons[i])
    THEN CHOOSE i \in 1..(Len(polygons) - 1) :
            /\ Intersects(new_polygon, polygons[i])
            /\ \A j \in 1..(i - 1) : ~Intersects(new_polygon, polygons[j])
    ELSE 0

\* the scan of lines 75-80: the position of the first accepted polygon the
\* candidate intersects, 0 when there is none
FirstCollision(new_polygon) ==
    IF \E i \in 1..Len(polygons) : Intersects(new_polygon, polygons[i])
    THEN CHOOSE i \in 1..Len(polygons) :
            /\ Intersects(new_polygon, polygons[i])
            /\ \A j \in 1..(i - 1) : ~Intersects(new_polygon, polygons[j])
    ELSE 0

\* the scan run without the test of line 74
CandidateRejectedAlways ==
    /\ pc = "loop"
    /\ LoopCondition
    /\ \E new_polygon \in MultiCandidates :
          /\ FirstCollision(new_polygon) # 0
          /\ polygon' = new_polygon
          /\ checks' = checks + FirstCollision(new_polygon)
    /\ candidates' = candidates + 1
    /\ collisions_count' = collisions_count + 1
    /\ UNCHANGED <<pc, parameters, polygons>>
    /\ UNCHANGED PolygonLocals

\* lines 72-79: a candidate that intersects an accepted polygon
CandidateRejected ==
    /\ pc = "loop"
    /\ LoopCondition
    /\ parameters.max_collisions_count # None
    /\ \E new_polygon \in MultiCandidates :
          /\ FirstCollision(new_polygon) # 0
          /\ polygon' = new_polygon
          /\ checks' = checks + FirstCollision(new_polygon)
    /\ candidates' = candidates + 1
    /\ collisions_count' = collisions_count + 1
    /\ UNCHANGED <<pc, parameters, polygons>>
    /\ UNCHANGED PolygonLocals

\* lines 72-83: a candidate that is pushed
CandidateAccepted ==
    /\ pc = "loop"
    /\ LoopCondition
    /\ \E new_polygon \in MultiCandidates :
          /\ IF parameters.max_collisions_count # None
             THEN /\ FirstCollision(new_polygon) = 0
                  /\ checks' = checks + Len(polygons)
             ELSE UNCHANGED checks
          /\ polygon' = new_polygon
          /\ polygons' = Append(polygons, new_polygon)
    /\ candidates' = candidates + 1
    /\ UNCHANGED <<pc, parameters, collisions_count>>
    /\ UNCHANGED PolygonLocals

\* line 72: Polygon::rand panics
CandidatePanics ==
    /\ pc = "loop"
    /\ LoopCondition
    /\ PolygonRandCanPanic(parameters)
    /\ pc' = "panic"
    /\ UNCHANGED <<parameters, polygon, polygons, collisions_count, candidates, checks>>
    /\ UNCHANGED PolygonLocals

\* line 86
ReturnMultiPolygon ==
    /\ pc = "loop"
    /\ ~LoopCondition
    /\ pc' = "returned"
    /\ UNCHANGED <<parameters, polygon, polygons, collisions_count, candidates, checks>>
    /\ UNCHANGED PolygonLocals

NextMulti ==
    \/ CandidateRejected \/ CandidateAccepted \/ CandidatePanics
    \/ ReturnMultiPolygon

SpecMulti == InitMulti /\ [][NextMulti]_vars

\* ================================================================ properties
PairwiseDistinct(pts) == \A i, j \in 1..Len(pts) : i # j => pts[i] # pts[j]
Count(seq, q) == Cardinality({i \in 1..Len(seq) : seq[i] = q})

ContourDone == pc = "contour_done" /\ Len(points) >= 1

\* C1 as stated: for every non-empty input of N points (repeated points and
\* N = 1 included) the contour has exactly N + 1 points and its first point
\* equals its last.
C1_Original ==
    ContourDone =>
        /\ contour # None
        /\ Len(unwrap(contour)) = Len(points) + 1
        /\ unwrap(contour)[1] = unwrap(contour)[Len(unwrap(contour))]

\* C1 (amended): for every non-empty input of N points the contour is closed
\* (first point = last point) and has at least 3 points; it has exactly 3
\* points when N = 1, at most N + 1 points when N >= 2, and exactly N + 1
\* points when N >= 2 and the input points are pairwise distinct.
C1_ContourLength ==
    ContourDone =>
        /\ contour # None
        /\ LET c == unwrap(contour)
               N == Len(points)
           IN /\ c[1] = c[Len(c)]
              /\ Len(c) >= 3
              /\ (N = 1 => Len(c) = 3)
              /\ (N >= 2 => Len(c) <= N + 1)
              /\ (N >= 2 /\ PairwiseDistinct(points) => Len(c) = N + 1)

C1_Witness ==
    /\ ContourDone
    /\ Len(points) = 3
    /\ PairwiseDistinct(points)
    /\ Len(unwrap(contour)) = 4
    /\ unwrap(contour)[1] = unwrap(contour)[4]

\* the first point of smallest x and the last point of largest x
LeftmostOf(pts) ==
    pts[CHOOSE i \in 1..Len(pts) :
            /\ \A j \in 1..Len(pts) : X(pts[i]) <= X(pts[j])
            /\ \A j \in 1..(i - 1) : X(pts[i]) < X(pts[j])]
RightmostOf(pts) ==
    pts[CHOOSE i \in 1..Len(pts) :
            /\ \A j \in 1..Len(pts) : X(pts[i]) >= X(pts[j])
            /\ \A j \in (i + 1)..Len(pts) : X(pts[i]) > X(pts[j])]

\* cross product of (r - l) and (q - l)
CrossOf(l, r, q) ==
    (X(r) - X(l)) * (Y(q) - Y(l)) - (Y(r) - Y(l)) * (X(q) - X(l))

\* c is l, a chain of k - 1 points, r, a second chain, l
IsTwoChains(c, pts, l, r, k) ==
    /\ c[1] = l /\ c[k + 1] = r /\ c[Len(c)] = l
    /\ \A i \in 2..k : CrossOf(l, r, c[i]) >= 0 /\ c[i] # l /\ c[i] # r
    /\ \A i \in 2..(k - 1) : X(c[i]) <= X(c[i + 1])
    /\ \A i \in (k + 2)..(Len(c) - 1) : CrossOf(l, r, c[i]) < 0 /\ c[i] # l /\ c[i] # r
    /\ \A i \in (k + 2)..(Len(c) - 2) : X(c[i]) >= X(c[i + 1])
    /\ \A i \in 1..Len(pts) :
          (pts[i] # l /\ pts[i] # r) =>
              Count(SubSeq(c, 2, k) \o SubSeq(c, k + 2, Len(c) - 1), pts[i])
                  = Count(pts, pts[i])

PolygonReturned == pc = "returned"

\* C3: every vertex of a polygon returned by Polygon::rand has x in
\* [min_x, max_x] and y in [min_y, max_y].
C3_VerticesInRegion ==
    PolygonReturned =>
        \A i \in 1..Len(polygon) :
            /\ parameters.min_x <= X(polygon[i]) /\ X(polygon[i]) <= parameters.max_x
            /\ parameters.min_y <= Y(polygon[i]) /\ Y(polygon[i]) <= parameters.max_y

C3_Witness ==
    /\ PolygonReturned
    /\ translate_x < 0 /\ translate_y > 0
    /\ \E i \in 1..Len(polygon) : X(polygon[i]) = parameters.min_x
    /\ \E i \in 1..Len(polygon) : Y(polygon[i]) > parameters.min_y

BoxDraws == <<"bound_x1", "bound_y1", "bound_x2", "bound_y2">>
PointDraws(n) == [i \in 1..(2 * n) |-> IF i % 2 = 1 THEN "point_x" ELSE "point_y"]
IsPrefix(a, b) == Len(a) <= Len(b) /\ SubSeq(b, 1, Len(a)) = a

\* the order C6 states, and the order of the statements of lines 92-123
StatedOrder(n) ==
    BoxDraws \o <<"vertices_count">> \o PointDraws(n) \o <<"translate_x", "translate_y">>
SourceOrder(n) ==
    BoxDraws \o <<"translate_x", "translate_y", "vertices_count">> \o PointDraws(n)

VertexCount(ring) == Len(ring) - 1

\* C7 as stated: the vertex count v of every returned polygon satisfies
\* 3 <= v < max_polygon_vertices_count, coinciding points included.
C7_Original ==
    PolygonReturned =>
        /\ 3 <= VertexCount(polygon)
        /\ VertexCount(polygon) < parameters.max_polygon_vertices_count

\* C7 (amended): the vertex count v of every returned polygon satisfies
\* 2 <= v <= vertices_count < max_polygon_vertices_count, where
\* vertices_count >= 3 is the number drawn, and v = vertices_count when the
\* drawn points are pairwise distinct (coinciding points can lower v to 2).
C7_VertexCount ==
    PolygonReturned =>
        /\ 2 <= VertexCount(polygon)
        /\ VertexCount(polygon) <= vertices_count
        /\ 3 <= vertices_count
        /\ vertices_count < parameters.max_polygon_vertices_count
        /\ (PairwiseDistinct(points) => VertexCount(polygon) = vertices_count)

C7_Witness ==
    /\ PolygonReturned
    /\ vertices_count = 3
    /\ VertexCount(polygon) = 2
    /\ ~PairwiseDistinct(points)

\* C10: with min < max on each axis and max_polygon_vertices_count > 3 every
\* range drawn from inside Polygon::rand and Point::rand is non-empty,
\* whatever the earlier draws were, so no draw fails.
C10_EveryRangeNonEmpty ==
    (/\ parameters.min_x < parameters.max_x
     /\ parameters.min_y < parameters.max_y
     /\ parameters.max_polygon_vertices_count > 3
     /\ pc \in DrawSites \cup {"panic"})
        => (pc # "panic" /\ DrawRange[1] < DrawRange[2])

\* ------------------------------------------------------- MultiPolygon::rand
Budgeted == parameters.max_collisions_count # None
BudgetIs(b) == parameters.max_collisions_count = Some(b)
MultiReturned == pc = "returned"

\* C2: with a collision budget configured, in every state of
\* MultiPolygon::rand no two accepted polygons intersect and at most
\* max_polygons_count polygons are accepted.
C2_AcceptedDisjoint ==
    Budgeted =>
        /\ \A i, j \in 1..Len(polygons) :
              i # j => ~Intersects(polygons[i], polygons[j])
        /\ Len(polygons) <= parameters.max_polygons_count

C2_Witness ==
    /\ Budgeted
    /\ Len(polygons) = 2
    /\ collisions_count >= 1
    /\ candidates = 3

\* the last candidate was rejected: it intersects an accepted polygon
LastCandidateCollided ==
    /\ polygon # <<>>
    /\ \E i \in 1..Len(polygons) : Intersects(polygon, polygons[i])

\* C4 as stated: with max_collisions_count = Some(0) the call generates and
\* accepts candidates until the first candidate that intersects an accepted
\* polygon (or until max_polygons_count are accepted) and returns the
\* polygons accepted before that candidate.
C4_Original ==
    (BudgetIs(0) /\ MultiReturned) =>
        \/ Len(polygons) = parameters.max_polygons_count /\ candidates = Len(polygons)
        \/ candidates = Len(polygons) + 1 /\ LastCandidateCollided

\* C4 (amended): with max_collisions_count = Some(1) the call generates and
\* accepts candidates until the first candidate that intersects an accepted
\* polygon (or until max_polygons_count are accepted); that candidate is the
\* last one generated and the call returns the polygons accepted before it.  With max_collisions_count = Some(0) the call generates no
\* candidate and returns no polygon.
C4_FirstCollisionEnds ==
    /\ (BudgetIs(1) /\ collisions_count = 0) =>
          candidates = Len(polygons)
    /\ (BudgetIs(1) /\ collisions_count # 0) =>
          /\ collisions_count = 1
          /\ candidates = Len(polygons) + 1
          /\ LastCandidateCollided
          /\ pc \in {"loop", "returned"}
    /\ (BudgetIs(1) /\ MultiReturned) =>
          \/ Len(polygons) = parameters.max_polygons_count /\ collisions_count = 0
          \/ collisions_count = 1
    /\ BudgetIs(0) =>
          candidates = 0 /\ polygons = <<>> /\ pc \in {"loop", "returned"}

C4_Witness ==
    /\ BudgetIs(1)
    /\ MultiReturned
    /\ collisions_count = 1
    /\ Len(polygons) = 1
    /\ parameters.max_polygons_count = 2
    /\ candidates = 2

\* C5: with max_collisions_count = None the intersection check never runs,
\* every generated candidate is accepted, and when the call returns the
\* output has exactly max_polygons_count polygons.
C5_NoBudget ==
    ~Budgeted =>
        /\ checks = 0
        /\ collisions_count = 0
        /\ candidates = Len(polygons)
        /\ (pc = "returned" => Len(polygons) = parameters.max_polygons_count)

C5_Witness ==
    /\ ~Budgeted
    /\ MultiReturned
    /\ Len(polygons) = 2
    /\ Intersects(polygons[1], polygons[2])

\* C8: with a collision budget B the loop ends after at most
\* max_polygons_count + B candidates, the counter never exceeds B, and the
\* loop ends in one of two states: accepted-count = max_polygons_count, or
\* counter = B with accepted-count < max_polygons_count.
C8_TerminalStates ==
    Budgeted =>
        LET B == unwrap(parameters.max_collisions_count)
        IN /\ collisions_count <= B
           /\ candidates <= parameters.max_polygons_count + B
           /\ pc \in {"loop", "returned"}
           /\ (pc = "returned" =>
                 \/ Len(polygons) = parameters.max_polygons_count
                 \/ collisions_count = B /\ Len(polygons) < parameters.max_polygons_count)

\* the part of C8 that holds: the same, for the calls in which Polygon::rand
\* does not panic
C8_UnlessPanic ==
    (Budgeted /\ pc # "panic") =>
        LET B == unwrap(parameters.max_collisions_count)
        IN /\ collisions_count <= B
           /\ candidates <= parameters.max_polygons_count + B
           /\ (pc = "returned" =>
                 \/ Len(polygons) = parameters.max_polygons_count
                 \/ collisions_count = B /\ Len(polygons) < parameters.max_polygons_count)

====
